---- MODULE Spec2Model ----
(***************************************************************************)
(* Model of the video-dubbing service: the task registry and background    *)
(* task of src/src/routes.py and the generation pipeline of                *)
(* src/src/services/generator.py (VideoGenerator.generate_all).            *)
(*                                                                         *)
(* One step of the model is one run of the event loop's current coroutine  *)
(* from one suspension point to the next: Python code between two awaits   *)
(* that really suspend (a download, a run_in_executor future, a blocked    *)
(* semaphore acquire, gather) runs atomically.  Awaiting progress_callback *)
(* does not suspend, because update_progress contains no await.            *)
(* Outcomes of the external capabilities (fetch, concatenation, synthesis, *)
(* mixing, render, upload) are chosen nondeterministically.                *)
(*                                                                         *)
(* The specifications share the variables: Spec (registry and pipeline),   *)
(* SpecFair (Spec with weak fairness of Next), SpecDelete (Spec with the   *)
(* DELETE route), SpecMix (the pipeline from the mix stage on), SpecParse  *)
(* (parse_blocks applied to any mapping), SpecConcat (concatenate_videos   *)
(* of src/src/services/video.py, one method call per step), SpecLoop       *)
(* (which operations of a generation occupy the event loop thread while    *)
(* they run), SpecTTS (the voice catalogue of the shared TTSService,       *)
(* src/src/services/tts.py) and SpecDownload (download_file of             *)
(* src/src/services/download.py).                                          *)
(***************************************************************************)
EXTENDS Integers, Sequences, FiniteSets, TLC

\* ---------------------------------------------------------------- bounds
MaxBlocks == 2   \* keys block1..blockN in a request
MaxVideos == 2   \* URLs in one block list
MaxAudio  == 2   \* URLs in the audio1 list
MaxVoice  == 1   \* voice lines in the voice1 list
MaxJobs   == 3   \* largest configured max_concurrent_jobs
MaxParseKeys == 2   \* indices 1..N examined per family by parse_blocks alone
MaxParseLen  == 2   \* items in one list given to parse_blocks alone
MaxPaths     == 2   \* input files given to concatenate_videos alone
MaxCoroutines == 2  \* generation coroutines on the one event loop
MaxMixAudio   == 2  \* audio tracks when the mix stage is entered directly
MaxMixVoice   == 2  \* voice clips when the mix stage is entered directly

TaskIds == {"t1"}

DefaultJobs == 3   \* settings.max_concurrent_jobs when the environment sets none

\* ---------------------------------------------------------------- values
NoError == <<>>          \* the result dict has no "error" key / TASKS error is None

Missing  == [kind |-> "missing", items |-> <<>>]   \* key not in the request mapping
NotAList == [kind |-> "other",   items |-> <<>>]   \* a value that is not a list
ListOf(s) == [kind |-> "list", items |-> s]

SeqsUpTo(S, n) == UNION {[1..k -> S] : k \in 0..n}

\* a family with keys 1..k present (k <= keys), each a list of at most n items
Family(items, keys, n) ==
    {f \in [1..keys -> {Missing} \cup {ListOf(s) : s \in SeqsUpTo(items, n)}] :
        \A i \in 1..keys : \A j \in 1..keys :
            (i < j /\ f[i] = Missing) => f[j] = Missing}

\* the requests submitted to the pipeline: up to MaxBlocks block keys, and the
\* keys audio1 and voice1
Requests ==
    [block : Family({"v"}, MaxBlocks, MaxVideos),
     audio : Family({"a"}, 1, MaxAudio),
     voice : Family({"s"}, 1, MaxVoice)]

NoRequest == [block |-> <<>>, audio |-> <<>>, voice |-> <<>>]

\* ---------------------------------------------------------------- parse_blocks
RECURSIVE Flatten(_)
Flatten(ss) == IF ss = <<>> THEN <<>> ELSE Head(ss) \o Flatten(Tail(ss))

\* number of consecutive keys fam1, fam2, ... present in the mapping
RECURSIVE ScanLen(_, _)
ScanLen(f, i) ==
    IF i \in DOMAIN f /\ f[i] # Missing THEN ScanLen(f, i + 1) ELSE i - 1

IsList(v) == v.kind = "list"
IsNonEmptyList(v) == v.kind = "list" /\ v.items # <<>>

Scanned(f) == [i \in 1..ScanLen(f, 1) |-> f[i]]

ItemsOf(vs) == [i \in 1..Len(vs) |-> vs[i].items]

\* faulty variant: every audio list replaces the ones before it
parse_blocks_LastAudioOnly(d) ==
    [video_blocks  |-> ItemsOf(SelectSeq(Scanned(d.block), IsNonEmptyList)),
     audio_urls    |-> LET ls == SelectSeq(Scanned(d.audio), IsList)
                       IN  IF ls = <<>> THEN <<>> ELSE ls[Len(ls)].items,
     voice_configs |-> Flatten(ItemsOf(SelectSeq(Scanned(d.voice), IsList)))]

parse_blocks(d) ==
    [video_blocks  |-> ItemsOf(SelectSeq(Scanned(d.block), IsNonEmptyList)),
     audio_urls    |-> Flatten(ItemsOf(SelectSeq(Scanned(d.audio), IsList))),
     voice_configs |-> Flatten(ItemsOf(SelectSeq(Scanned(d.voice), IsList)))]


\* ---------------------------------------------------------------- state
VARIABLES
    TASKS,                \* routes.TASKS: task id -> registry entry
    max_concurrent_jobs,  \* settings.max_concurrent_jobs
    config,               \* the request handed to the queued background task
    task_id,              \* id of the task run_generation works on
    pc,                   \* position of run_generation / generate_all
    results,              \* generate_all: the results dict
    video_blocks, audio_urls, voice_configs,   \* generate_all: parse output
    temp_dir,             \* "none" | "exists" | "removed"
    fetches,              \* number of download_file calls that have returned
    block_i, video_j,     \* block being processed (1-based), videos of it downloaded
    base_videos,          \* generate_all: block names of the concatenated videos
    audio_files,          \* download_all_audio: indices idx of audio_{idx}.mp3
    tts_files,            \* generate_all_tts: indices idx of tts_{idx}.mp3
    tts_silent,           \* indices whose synthesis failed (silent substitute)
    mix_i,                \* create_audio_mixes: index of the pairing being mixed
    mixed_audio_files,    \* create_audio_mixes: indices idx of mixed_{idx}.mp3
    total_variants,       \* generate_all: total_variants
    completed,            \* generate_all: the nonlocal completed counter
    semaphore,            \* value of the asyncio.Semaphore
    tasks,                \* generate_all: the render units, in creation order
    unit,                 \* position of each render unit
    reported,             \* history: the (completed, total) pairs given to progress_callback
    ingest_failed,        \* history: a block download, audio download or concatenation failed
    mix_failures,         \* history: number of pairings that failed to mix
    local_outputs,        \* render units whose local_output_path file exists
    \* -- parse_blocks applied to a request mapping
    data,                 \* the mapping given to parse_blocks
    parsed,               \* what parse_blocks returned for it
    \* -- video.concatenate_videos
    video_paths,          \* the input files, in order
    output_file,          \* the file at output_path
    concat_pc,            \* position inside concatenate_videos
    calls,                \* history: the helpers invoked so far, with their results
    ret,                  \* the value concatenate_videos returned
    \* -- the event loop shared by the tasks of the process
    co,                   \* per coroutine: the operation it is at and its phase
    loop_thread,          \* the coroutine the loop thread is executing, or "free"
    \* -- the TTSService instance shared by all tasks (main.py line 29)
    client,               \* TTSService.client is set (an api key was configured)
    provider_voices,      \* the catalogue the provider holds, in listing order
    voices_cache,         \* TTSService._voices_cache
    thread,               \* per executor thread: its position in get_voice_id
    catalogue_loads,      \* history: number of catalogues get_all has returned
    \* -- download.download_file
    disk,                 \* per destination path: the file found there
    download_pc,          \* position inside download_file
    dest_path,            \* the destination of the call in progress
    resp_status,          \* resp.status of that call, 0 while there is no response
    download_ret,         \* what the last call returned
    touched,              \* history: the last call opened its destination
    downloads             \* number of download_file calls started

vars == <<TASKS, max_concurrent_jobs, config, task_id, pc, results,
          video_blocks, audio_urls, voice_configs, temp_dir, fetches,
          block_i, video_j, base_videos, audio_files, tts_files, tts_silent,
          mix_i, mixed_audio_files, total_variants, completed, semaphore,
          tasks, unit, reported, ingest_failed, mix_failures, local_outputs,
          data, parsed, video_paths, output_file, concat_pc, calls, ret,
          co, loop_thread, client, provider_voices, voices_cache,
          thread, catalogue_loads, disk, download_pc, dest_path, resp_status,
          download_ret,          touched, downloads>>

parse_vars  == <<data, parsed>>
concat_vars == <<video_paths, output_file, concat_pc, calls, ret>>
loop_vars   == <<co, loop_thread>>
tts_vars    == <<client, provider_voices, voices_cache, thread,
                 catalogue_loads>>
download_vars == <<disk, download_pc, dest_path, resp_status, download_ret, touched,
                   downloads>>

\* what no step of the generation pipeline changes
fixed_vars == <<max_concurrent_jobs, parse_vars, concat_vars, loop_vars,
                tts_vars, download_vars>>

pipeline_vars == <<video_blocks, audio_urls, voice_configs, temp_dir, fetches,
                   local_outputs,
                   block_i, video_j, base_videos, audio_files, tts_files,
                   tts_silent, mix_i, mixed_audio_files, total_variants,
                   completed, semaphore, tasks, unit, reported, ingest_failed,
                   mix_failures>>

NewResults == [successful |-> <<>>, failed |-> <<>>, total |-> 0, urls |-> <<>>,
               error |-> NoError]

HasError(res) == res.error # NoError

\* the pipeline before any request
PipelineIdle ==
    /\ TASKS = <<>>
    /\ config = NoRequest
    /\ task_id = "none"
    /\ pc = "none"
    /\ results = NewResults
    /\ video_blocks = <<>> /\ audio_urls = <<>> /\ voice_configs = <<>>
    /\ temp_dir = "none"
    /\ fetches = 0
    /\ block_i = 0 /\ video_j = 0
    /\ base_videos = <<>>
    /\ audio_files = <<>>
    /\ tts_files = <<>>
    /\ tts_silent = {}
    /\ mix_i = 0
    /\ mixed_audio_files = <<>>
    /\ total_variants = 0
    /\ completed = 0
    /\ semaphore = 0
    /\ tasks = <<>>
    /\ unit = <<>>
    /\ reported = <<>>
    /\ ingest_failed = FALSE
    /\ mix_failures = 0
    /\ local_outputs = {}

NoParse == [video_blocks |-> <<>>, audio_urls |-> <<>>, voice_configs |-> <<>>,
            called |-> FALSE]

ParseIdle == data = NoRequest /\ parsed = NoParse

\* output_path does not exist
NoOutput == [kind |-> "absent", of |-> <<>>, size |-> <<>>]

ConcatIdle ==
    /\ video_paths = <<>>
    /\ output_file = NoOutput
    /\ concat_pc = "idle"
    /\ calls = <<>>
    /\ ret = "none"

LoopIdle == co = <<>> /\ loop_thread = "free"

\* tts.py line 15: the cache before the first call
NoCache == [loaded |-> FALSE, voices |-> <<>>]

TTSIdle ==
    /\ client = FALSE
    /\ provider_voices = <<>>
    /\ voices_cache = NoCache
    /\ thread = <<>>
    /\ catalogue_loads = 0

DownloadIdle ==
    /\ disk = <<>>
    /\ download_pc = "idle"
    /\ dest_path = 0
    /\ resp_status = 0
    /\ download_ret = "none"
    /\ touched = FALSE
    /\ downloads = 0

Init ==
    /\ max_concurrent_jobs \in 0..MaxJobs
    /\ TTSIdle
    /\ DownloadIdle
    /\ PipelineIdle
    /\ ParseIdle
    /\ ConcatIdle
    /\ LoopIdle

\* ---------------------------------------------------------------- routes.py
NewTask == [task_name |-> "task", status |-> "queued", progress |-> 0,
            completed |-> 0, total |-> 0, results |-> <<>>, failed_count |-> 0,
            completed_at |-> "None", error |-> NoError]

\* round(x, 2) of x = completed / total * 100, in hundredths (ties to even)
Round2(c, t) ==
    LET q == (c * 10000) \div t
        r == (c * 10000) % t
    IN  IF 2 * r > t \/ (2 * r = t /\ q % 2 = 1) THEN q + 1 ELSE q

update_progress(reg, tid, c, t) ==
    IF tid \in DOMAIN reg
    THEN [reg EXCEPT ![tid].completed = c, ![tid].total = t,
                     ![tid].progress = IF t > 0 THEN Round2(c, t) ELSE 0]
    ELSE reg

\* faulty variant: a run with failed variants is stored as a failed task
StoreOutcome_FailOnAnyFailure(reg, tid, res) ==
    IF HasError(res) \/ res.failed # <<>>
    THEN [reg EXCEPT ![tid].status = "failed", ![tid].error = res.error,
                     ![tid].completed_at = "set"]
    ELSE [reg EXCEPT ![tid].status = "completed",
                     ![tid].results = res.successful,
                     ![tid].failed_count = Len(res.failed),
                     ![tid].completed_at = "set"]

\* faulty variant: the outcome is stored under the task id even when the entry is gone
StoreOutcome_Recreate(reg, tid, res) ==
    [t \in DOMAIN reg \cup {tid} |->
        LET entry == IF t \in DOMAIN reg THEN reg[t] ELSE NewTask
        IN  IF t # tid THEN entry
            ELSE IF HasError(res)
            THEN [entry EXCEPT !.status = "failed", !.error = res.error,
                               !.completed_at = "set"]
            ELSE [entry EXCEPT !.status = "completed", !.results = res.successful,
                               !.failed_count = Len(res.failed),
                               !.completed_at = "set"]]

\* run_generation after generate_all has returned res; without an entry
\* TASKS[task_id] raises KeyError at line 37 or 40 and again at line 46, and
\* nothing is written
StoreOutcome(reg, tid, res) ==
    IF tid \notin DOMAIN reg THEN reg
    ELSE IF HasError(res)
    THEN [reg EXCEPT ![tid].status = "failed", ![tid].error = res.error,
                     ![tid].completed_at = "set"]
    ELSE [reg EXCEPT ![tid].status = "completed",
                     ![tid].results = res.successful,
                     ![tid].failed_count = Len(res.failed),
                     ![tid].completed_at = "set"]

\* POST /generate (a request without task_name is rejected and changes nothing)
generate_videos(tid, req) ==
    /\ pc = "none"
    /\ tid \notin DOMAIN TASKS
    /\ TASKS' = [t \in DOMAIN TASKS \cup {tid} |->
                    IF t = tid THEN NewTask ELSE TASKS[t]]
    /\ config' = req
    /\ task_id' = tid
    /\ pc' = "queued"
    /\ UNCHANGED <<fixed_vars, results, pipeline_vars>>


\* ---------------------------------------------------------------- generate_all
\* faulty variant: the audio family is checked before the block family
validate_AudioFirst(p) ==
    IF p.audio_urls = <<>> THEN <<"No audio URLs found">>
    ELSE IF p.video_blocks = <<>> THEN <<"No video blocks found">>
    ELSE IF p.voice_configs = <<>> THEN <<"No voice configs found">>
    ELSE NoError

\* lines 224-229: the three emptiness checks, in order
validate(p) ==
    IF p.video_blocks = <<>> THEN <<"No video blocks found">>
    ELSE IF p.audio_urls = <<>> THEN <<"No audio URLs found">>
    ELSE IF p.voice_configs = <<>> THEN <<"No voice configs found">>
    ELSE NoError

\* faulty variant: the exception leaves generate_all and is caught by run_generation
Abort_Raises(reg, msg) ==
    /\ results' = results
    /\ TASKS' = [reg EXCEPT ![task_id].status = "failed", ![task_id].error = msg,
                            ![task_id].completed_at = "set"]
    /\ pc' = "raised"

\* the except clause of generate_all, then the rest of run_generation
Abort(reg, msg) ==
    /\ results' = [results EXCEPT !.error = msg]
    /\ TASKS' = StoreOutcome(reg, task_id, results')
    /\ pc' = "returned"

\* faulty variant: the background task starts without recording "processing"
run_generation_start_NoStatus ==
    /\ pc = "queued"
    /\ pc' = "processing"
    /\ UNCHANGED <<TASKS, fixed_vars, config, task_id, results, pipeline_vars>>

\* run_generation line 29: the background task starts
run_generation_start ==
    /\ pc = "queued"
    /\ IF task_id \in DOMAIN TASKS
       THEN /\ TASKS' = [TASKS EXCEPT ![task_id].status = "processing"]
            /\ pc' = "processing"
       ELSE \* KeyError at line 29 and again at line 46: generate_all is not called
            /\ TASKS' = TASKS
            /\ pc' = "crashed"
    /\ UNCHANGED <<fixed_vars, config, task_id, results, pipeline_vars>>

\* generate_all up to the first suspension: parse, validation, mkdtemp
generate_all_start ==
    /\ pc = "processing"
    /\ LET p == parse_blocks(config)
       IN  /\ video_blocks' = p.video_blocks
           /\ audio_urls' = p.audio_urls
           /\ voice_configs' = p.voice_configs
           /\ IF validate(p) # NoError
              THEN /\ Abort(TASKS, validate(p))
                   /\ UNCHANGED <<temp_dir, block_i, video_j>>
              ELSE /\ temp_dir' = "exists"
                   /\ block_i' = 1
                   /\ video_j' = 0
                   /\ pc' = "blocks"
                   /\ UNCHANGED <<TASKS, results>>
    /\ config' = NoRequest    \* the request is not read again
    /\ UNCHANGED <<fixed_vars, local_outputs, task_id, fetches, base_videos, audio_files,
                   tts_files, tts_silent, mix_i, mixed_audio_files, total_variants,
                   completed, semaphore, tasks, unit, reported, ingest_failed,
                   mix_failures>>

\* process_video_block: one download_file returns; after the last download of the
\* block concatenate_videos runs synchronously
process_video_block(ok, concat_ok) ==
    /\ pc = "blocks"
    /\ fetches' = fetches + 1
    /\ LET block == video_blocks[block_i]
           block_name == block_i
           idx == video_j
           last_video == idx + 1 = Len(block)
           last_block == block_i = Len(video_blocks)
       IN  IF ~ok
           THEN /\ Abort(TASKS, <<"Failed to download video", block_name, idx>>)
                /\ ingest_failed' = TRUE
                /\ UNCHANGED <<block_i, video_j, base_videos>>
           ELSE IF ~last_video
           THEN /\ video_j' = idx + 1
                /\ UNCHANGED <<TASKS, results, pc, block_i, base_videos, ingest_failed>>
           ELSE IF ~concat_ok
           THEN /\ Abort(TASKS, <<"Concatenation failed", block_name>>)
                /\ ingest_failed' = TRUE
                /\ video_j' = idx + 1
                /\ UNCHANGED <<block_i, base_videos>>
           ELSE /\ base_videos' = Append(base_videos, block_name)
                /\ block_i' = IF last_block THEN block_i ELSE block_i + 1
                /\ video_j' = IF last_block THEN idx + 1 ELSE 0
                /\ pc' = IF last_block THEN "audio" ELSE "blocks"
                /\ UNCHANGED <<TASKS, results, ingest_failed>>
    /\ UNCHANGED <<fixed_vars, local_outputs, config, task_id, video_blocks, audio_urls,
                   voice_configs, temp_dir, audio_files, tts_files, tts_silent,
                   mix_i, mixed_audio_files, total_variants, completed, semaphore,
                   tasks, unit, reported, mix_failures>>

\* faulty variant: a failed audio download is skipped instead of raising
download_all_audio_Lenient(ok) ==
    /\ pc = "audio"
    /\ fetches' = fetches + 1
    /\ audio_files' = Append(audio_files, Len(audio_files))
    /\ pc' = IF Len(audio_files) + 1 = Len(audio_urls) THEN "tts" ELSE "audio"
    /\ ingest_failed' = (ingest_failed \/ ~ok)
    /\ UNCHANGED <<TASKS, results>>
    /\ UNCHANGED <<fixed_vars, local_outputs, config, task_id, video_blocks, audio_urls,
                   voice_configs, temp_dir, block_i, video_j, base_videos, tts_files,
                   tts_silent, mix_i, mixed_audio_files, total_variants, completed,
                   semaphore, tasks, unit, reported, mix_failures>>

\* download_all_audio: one download_file returns
download_all_audio(ok) ==
    /\ pc = "audio"
    /\ fetches' = fetches + 1
    /\ LET idx == Len(audio_files)
       IN  IF ok
           THEN /\ audio_files' = Append(audio_files, idx)
                /\ pc' = IF idx + 1 = Len(audio_urls) THEN "tts" ELSE "audio"
                /\ UNCHANGED <<TASKS, results, ingest_failed>>
           ELSE /\ Abort(TASKS, <<"Failed to download audio", idx>>)
                /\ ingest_failed' = TRUE
                /\ UNCHANGED audio_files
    /\ UNCHANGED <<fixed_vars, local_outputs, config, task_id, video_blocks, audio_urls,
                   voice_configs, temp_dir, block_i, video_j, base_videos, tts_files,
                   tts_silent, mix_i, mixed_audio_files, total_variants, completed,
                   semaphore, tasks, unit, reported, mix_failures>>

\* faulty variant: a failed synthesis raises like a failed download
generate_all_tts_Fatal(success) ==
    /\ pc = "tts"
    /\ LET idx == Len(tts_files)
       IN  IF success
           THEN /\ tts_files' = Append(tts_files, idx)
                /\ pc' = IF idx + 1 = Len(voice_configs) THEN "mixes" ELSE "tts"
                /\ UNCHANGED <<TASKS, results, tts_silent>>
           ELSE /\ Abort(TASKS, <<"TTS failed", idx>>)
                /\ tts_silent' = tts_silent \cup {idx}
                /\ tts_files' = Append(tts_files, idx)
    /\ mix_i' = 0
    /\ UNCHANGED <<fixed_vars, local_outputs, config, task_id, video_blocks,
                   audio_urls, voice_configs, temp_dir, fetches, block_i, video_j,
                   base_videos, audio_files, mixed_audio_files, total_variants,
                   completed, semaphore, tasks, unit, reported, ingest_failed,
                   mix_failures>>

\* generate_all_tts: generate_speech returns for one voice line; on failure the
\* silent clip is generated; the voice path is appended either way
generate_all_tts(success) ==
    /\ pc = "tts"
    /\ LET idx == Len(tts_files)
       IN  /\ tts_silent' = IF success THEN tts_silent ELSE tts_silent \cup {idx}
           /\ tts_files' = Append(tts_files, idx)
           /\ pc' = IF idx + 1 = Len(voice_configs) THEN "mixes" ELSE "tts"
    /\ mix_i' = 0
    /\ UNCHANGED <<TASKS, fixed_vars, local_outputs, config, task_id, results, video_blocks,
                   audio_urls, voice_configs, temp_dir, fetches, block_i, video_j,
                   base_videos, audio_files, mixed_audio_files, total_variants,
                   completed, semaphore, tasks, unit, reported, ingest_failed,
                   mix_failures>>


\* faulty variant: the block count is left out of the total
TotalVariants_MixesOnly(bvs, mixes) == Len(mixes)

\* line 254: total_variants
TotalVariants(bvs, mixes) == Len(bvs) * Len(mixes)

\* lines 308-315: the nested loops that create the render units
RECURSIVE InnerLoop(_, _, _, _)
InnerLoop(block_name, mixes, variant_counter, acc) ==
    IF mixes = <<>> THEN acc
    ELSE InnerLoop(block_name, Tail(mixes), variant_counter + 1,
                   Append(acc, [block_name |-> block_name,
                                mixed_audio |-> Head(mixes),
                                variant_num |-> variant_counter + 1]))

RECURSIVE OuterLoop(_, _, _)
OuterLoop(bvs, mixes, acc) ==
    IF bvs = <<>> THEN acc
    ELSE OuterLoop(Tail(bvs), mixes, InnerLoop(Head(bvs), mixes, Len(acc), acc))

\* faulty variant: the variant counter starts again at 1 for every block
MakeTasks_ResetCounter(bvs, mixes) ==
    [u \in 1..(Len(bvs) * Len(mixes)) |->
        [block_name  |-> bvs[((u - 1) \div Len(mixes)) + 1],
         mixed_audio |-> mixes[((u - 1) % Len(mixes)) + 1],
         variant_num |-> ((u - 1) % Len(mixes)) + 1]]

\* lines 308-315: one task per (base video, mix), blocks outermost
MakeTasks(bvs, mixes) == OuterLoop(bvs, mixes, <<>>)

\* line 269: variant_id
variant_id(tid, t) == <<tid, t.block_name, t.variant_num>>

Finished == {"ok", "render_failed", "publish_failed"}

AllDone(un) == \A u \in DOMAIN un : un[u] \in Finished

\* lines 317-329 and run_generation lines 36-44: gather has returned
Complete(reg, res) ==
    /\ temp_dir' = "removed"
    /\ local_outputs' = {}
    /\ TASKS' = StoreOutcome(reg, task_id, res)
    /\ pc' = "returned"

\* faulty variant: the render stage starts after the first pairing is mixed
create_audio_mixes_EarlyStart(success) ==
    /\ pc = "mixes"
    /\ LET idx   == mix_i
           mixes == IF success THEN Append(mixed_audio_files, idx)
                    ELSE mixed_audio_files
           last  == TRUE
           total == TotalVariants(base_videos, mixes)
       IN  /\ mixed_audio_files' = mixes
           /\ mix_failures' = IF success THEN mix_failures ELSE mix_failures + 1
           /\ IF ~last
              THEN /\ mix_i' = idx + 1
                   /\ UNCHANGED <<TASKS, pc, results, temp_dir, total_variants,
                                  completed, semaphore, tasks, unit, reported,
                                  local_outputs>>
              ELSE /\ mix_i' = idx + 1
                   /\ total_variants' = total
                   /\ results' = [results EXCEPT !.total = total]
                   /\ reported' = Append(reported, <<0, total>>)
                   /\ completed' = 0
                   /\ semaphore' = max_concurrent_jobs
                   /\ tasks' = MakeTasks(base_videos, mixes)
                   /\ unit' = [u \in 1..total |-> "waiting"]
                   /\ IF total = 0
                      THEN Complete(update_progress(TASKS, task_id, 0, total), results')
                      ELSE /\ TASKS' = update_progress(TASKS, task_id, 0, total)
                           /\ pc' = "gather"
                           /\ UNCHANGED <<temp_dir, local_outputs>>
    /\ UNCHANGED <<fixed_vars, config, task_id, video_blocks, audio_urls,
                   voice_configs, fetches, block_i, video_j, base_videos, audio_files,
                   tts_files, tts_silent, ingest_failed>>

\* faulty variant: a pairing that failed to mix is appended all the same
create_audio_mixes_KeepFailed(success) ==
    /\ pc = "mixes"
    /\ LET idx   == mix_i
           mixes == Append(mixed_audio_files, idx)
           last  == idx + 1 = Len(audio_files) * Len(tts_files)
           total == TotalVariants(base_videos, mixes)
       IN  /\ mixed_audio_files' = mixes
           /\ mix_failures' = IF success THEN mix_failures ELSE mix_failures + 1
           /\ IF ~last
              THEN /\ mix_i' = idx + 1
                   /\ UNCHANGED <<TASKS, pc, results, temp_dir, total_variants,
                                  completed, semaphore, tasks, unit, reported,
                                  local_outputs>>
              ELSE /\ mix_i' = idx + 1
                   /\ total_variants' = total
                   /\ results' = [results EXCEPT !.total = total]
                   /\ reported' = Append(reported, <<0, total>>)
                   /\ completed' = 0
                   /\ semaphore' = max_concurrent_jobs
                   /\ tasks' = MakeTasks(base_videos, mixes)
                   /\ unit' = [u \in 1..total |-> "waiting"]
                   /\ IF total = 0
                      THEN Complete(update_progress(TASKS, task_id, 0, total), results')
                      ELSE /\ TASKS' = update_progress(TASKS, task_id, 0, total)
                           /\ pc' = "gather"
                           /\ UNCHANGED <<temp_dir, local_outputs>>
    /\ UNCHANGED <<fixed_vars, config, task_id, video_blocks, audio_urls,
                   voice_configs, fetches, block_i, video_j, base_videos, audio_files,
                   tts_files, tts_silent, ingest_failed>>

\* create_audio_mixes: mix_audio_tracks returns for one pairing; after the last
\* pairing generate_all runs on to gather (lines 254-317)
create_audio_mixes(success) ==
    /\ pc = "mixes"
    /\ LET idx   == mix_i
           mixes == IF success THEN Append(mixed_audio_files, idx)
                    ELSE mixed_audio_files
           last  == idx + 1 = Len(audio_files) * Len(tts_files)
           total == TotalVariants(base_videos, mixes)
       IN  /\ mixed_audio_files' = mixes
           /\ mix_failures' = IF success THEN mix_failures ELSE mix_failures + 1
           /\ IF ~last
              THEN /\ mix_i' = idx + 1
                   /\ UNCHANGED <<TASKS, pc, results, temp_dir, total_variants,
                                  completed, semaphore, tasks, unit, reported,
                                  local_outputs>>
              ELSE /\ mix_i' = idx + 1
                   /\ total_variants' = total
                   /\ results' = [results EXCEPT !.total = total]
                   /\ reported' = Append(reported, <<0, total>>)
                   /\ completed' = 0
                   /\ semaphore' = max_concurrent_jobs
                   /\ tasks' = MakeTasks(base_videos, mixes)
                   /\ unit' = [u \in 1..total |-> "waiting"]
                   /\ IF total = 0
                      THEN Complete(update_progress(TASKS, task_id, 0, total), results')
                      ELSE /\ TASKS' = update_progress(TASKS, task_id, 0, total)
                           /\ pc' = "gather"
                           /\ UNCHANGED <<temp_dir, local_outputs>>
    /\ UNCHANGED <<fixed_vars, config, task_id, video_blocks, audio_urls,
                   voice_configs, fetches, block_i, video_j, base_videos, audio_files,
                   tts_files, tts_silent, ingest_failed>>

\* faulty variant: the unit enters without looking at the semaphore value
CanAcquire_NoLimit(sem) == TRUE

\* asyncio.Semaphore
CanAcquire(sem) == sem > 0

\* faulty variant: leaving the unit does not give the slot back
Release_Leak(sem) == sem

Release(sem) == sem + 1

\* line 302
Increment(c) == c + 1

unit_unchanged == <<fixed_vars, config, task_id, pc, video_blocks, audio_urls,
                    voice_configs, temp_dir, fetches, block_i, video_j, base_videos,
                    audio_files, tts_files, tts_silent, mix_i, mixed_audio_files,
                    total_variants, tasks, ingest_failed, mix_failures>>

\* asyncio starts the units in creation order and the semaphore wakes its waiters
\* first-in first-out, so the next unit to enter is the first one still waiting
NextWaiting(un, u) == un[u] = "waiting" /\ \A w \in DOMAIN un : w < u => un[w] # "waiting"

\* line 268 to the first await: the unit enters the semaphore and submits the render
unit_acquire(u) ==
    /\ pc = "gather"
    /\ NextWaiting(unit, u)
    /\ CanAcquire(semaphore)
    /\ semaphore' = semaphore - 1
    /\ unit' = [unit EXCEPT ![u] = "render"]
    /\ UNCHANGED <<TASKS, results, completed, reported, local_outputs>>
    /\ UNCHANGED unit_unchanged

\* faulty variant: the callback is given the counter as it was before the increment
FinishUnit_StaleReport(u, res, outcome) ==
    /\ results' = res
    /\ completed' = completed + 1
    /\ reported' = Append(reported, <<completed, total_variants>>)
    /\ TASKS' = update_progress(TASKS, task_id, completed, total_variants)
    /\ semaphore' = semaphore + 1
    /\ unit' = [unit EXCEPT ![u] = outcome]

\* lines 302-306 and the exit of "async with": count, report, release
FinishUnit(u, res, outcome) ==
    /\ results' = res
    /\ completed' = Increment(completed)
    /\ reported' = Append(reported, <<completed', total_variants>>)
    /\ TASKS' = update_progress(TASKS, task_id, completed', total_variants)
    /\ semaphore' = Release(semaphore)
    /\ unit' = [unit EXCEPT ![u] = outcome]

\* lines 281-300: how a finished unit is recorded
RecordSuccess(res, vid) ==
    [res EXCEPT !.successful = Append(@, [variant_id |-> vid, url |-> "url"])]
\* faulty variant: a failed unit is not recorded
RecordFailure_Dropped(res, vid) == res

RecordFailure(res, vid) ==
    [res EXCEPT !.failed = Append(@, vid)]

\* faulty variant: a failed render leaves the unit without counting or reporting it
render_done_NoReport(u, success) ==
    /\ pc = "gather"
    /\ unit[u] = "render"
    /\ local_outputs' = IF success THEN local_outputs \cup {u} ELSE local_outputs
    /\ IF success
       THEN /\ unit' = [unit EXCEPT ![u] = "upload"]
            /\ UNCHANGED <<TASKS, results, completed, reported, semaphore>>
       ELSE /\ results' = [results EXCEPT
                              !.failed = Append(@, variant_id(task_id, tasks[u]))]
            /\ semaphore' = semaphore + 1
            /\ unit' = [unit EXCEPT ![u] = "render_failed"]
            /\ UNCHANGED <<TASKS, completed, reported>>
    /\ UNCHANGED unit_unchanged

\* add_audio_to_video returns
render_done(u, success) ==
    /\ pc = "gather"
    /\ unit[u] = "render"
    /\ local_outputs' = IF success THEN local_outputs \cup {u} ELSE local_outputs
    /\ IF success
       THEN /\ unit' = [unit EXCEPT ![u] = "upload"]
            /\ UNCHANGED <<TASKS, results, completed, reported, semaphore>>
       ELSE FinishUnit(u, RecordFailure(results, variant_id(task_id, tasks[u])),
                       "render_failed")
    /\ UNCHANGED unit_unchanged

\* faulty variant: the local file is removed only when the upload gave a URL
Unlink_OnSuccessOnly(files, u, url) == IF url THEN files \ {u} ELSE files

\* line 297: local_output_path.unlink, after either outcome of the upload
Unlink(files, u, url) == files \ {u}

\* gcs_service.upload_file returns a URL or None
upload_done(u, url) ==
    /\ pc = "gather"
    /\ unit[u] = "upload"
    /\ local_outputs' = Unlink(local_outputs, u, url)
    /\ IF url
       THEN FinishUnit(u, RecordSuccess(results, variant_id(task_id, tasks[u])), "ok")
       ELSE FinishUnit(u, RecordFailure(results, variant_id(task_id, tasks[u])),
                       "publish_failed")
    /\ UNCHANGED unit_unchanged

\* gather returns once every unit has finished: cleanup, return, store the outcome
gather_done ==
    /\ pc = "gather"
    /\ AllDone(unit)
    /\ Complete(TASKS, results)
    /\ UNCHANGED <<fixed_vars, config, task_id, results, video_blocks,
                   audio_urls, voice_configs, fetches, block_i, video_j, base_videos,
                   audio_files, tts_files, tts_silent, mix_i, mixed_audio_files,
                   total_variants, completed, semaphore, tasks, unit, reported,
                   ingest_failed, mix_failures>>

Next ==
    \/ \E tid \in TaskIds : \E req \in Requests : generate_videos(tid, req)
    \/ run_generation_start
    \/ generate_all_start
    \/ \E ok \in BOOLEAN : \E concat_ok \in BOOLEAN : process_video_block(ok, concat_ok)
    \/ \E ok \in BOOLEAN : download_all_audio(ok)
    \/ \E success \in BOOLEAN : generate_all_tts(success)
    \/ \E success \in BOOLEAN : create_audio_mixes(success)
    \/ \E u \in DOMAIN unit : unit_acquire(u)
    \/ \E u \in DOMAIN unit : \E success \in BOOLEAN : render_done(u, success)
    \/ \E u \in DOMAIN unit : \E url \in BOOLEAN : upload_done(u, url)
    \/ gather_done

Spec == Init /\ [][Next]_vars

\* every external operation eventually returns and the loop keeps running
\* whatever is ready
SpecFair == Init /\ [][Next]_vars /\ WF_vars(Next)

\* ---------------------------------------------------------------- DELETE /task/{task_id}
\* the entry an earlier task has left in the registry (all its pairings failed)
EarlierTask == "t0"

FinishedEntry == [NewTask EXCEPT !.status = "completed", !.completed_at = "set"]

InitDelete ==
    /\ max_concurrent_jobs = DefaultJobs
    /\ TTSIdle
    /\ DownloadIdle
    /\ ParseIdle /\ ConcatIdle /\ LoopIdle
    /\ TASKS = [t \in {EarlierTask} |-> FinishedEntry]
    /\ config = NoRequest /\ task_id = "none" /\ pc = "none"
    /\ results = NewResults
    /\ video_blocks = <<>> /\ audio_urls = <<>> /\ voice_configs = <<>>
    /\ temp_dir = "none"
    /\ fetches = 0
    /\ block_i = 0 /\ video_j = 0
    /\ base_videos = <<>> /\ audio_files = <<>> /\ tts_files = <<>>
    /\ tts_silent = {}
    /\ mix_i = 0
    /\ mixed_audio_files = <<>>
    /\ total_variants = 0 /\ completed = 0 /\ semaphore = 0
    /\ tasks = <<>> /\ unit = <<>> /\ reported = <<>>
    /\ ingest_failed = FALSE
    /\ mix_failures = 0
    /\ local_outputs = {}

\* lines 124-130 (an unknown id is answered 404 and changes nothing)
delete_task(tid) ==
    /\ tid \in DOMAIN TASKS
    /\ TASKS' = [t \in DOMAIN TASKS \ {tid} |-> TASKS[t]]
    /\ UNCHANGED <<fixed_vars, config, task_id, pc, results, pipeline_vars>>

NextDelete ==
    \/ Next
    \/ \E tid \in DOMAIN TASKS : delete_task(tid)

SpecDelete == InitDelete /\ [][NextDelete]_vars

\* ---------------------------------------------------------------- parse_blocks alone
\* item pos of the list under key <fam><key>; items of one mapping are distinct
Tagged(fam, key, n) == [pos \in 1..n |-> <<fam, key, pos>>]

\* the values the key <fam><key> can have in a mapping
ValuesOf(fam, key) ==
    {Missing, NotAList} \cup {ListOf(Tagged(fam, key, n)) : n \in 0..MaxParseLen}

FamilyOf(fam) ==
    {f \in [1..MaxParseKeys -> UNION {ValuesOf(fam, k) : k \in 1..MaxParseKeys}] :
        \A k \in 1..MaxParseKeys : f[k] \in ValuesOf(fam, k)}

\* any mapping: keys of the three families with or without gaps, and a key
\* outside the families ("other") that is present or not
ParseInputs ==
    [block : FamilyOf("block"), audio : FamilyOf("audio"), voice : FamilyOf("voice"),
     other : {Missing, ListOf(Tagged("other", 1, 1))}]

InitParse ==
    /\ max_concurrent_jobs = DefaultJobs
    /\ TTSIdle
    /\ DownloadIdle
    /\ PipelineIdle
    /\ data \in ParseInputs
    /\ parsed = NoParse
    /\ ConcatIdle
    /\ LoopIdle

\* video_blocks, audio_urls, voice_configs = self.parse_blocks(data)
parse_blocks_call ==
    /\ ~parsed.called
    /\ parsed' = [video_blocks  |-> parse_blocks(data).video_blocks,
                  audio_urls    |-> parse_blocks(data).audio_urls,
                  voice_configs |-> parse_blocks(data).voice_configs,
                  called        |-> TRUE]
    /\ UNCHANGED <<data, max_concurrent_jobs, tts_vars, download_vars, concat_vars, loop_vars, TASKS, config,
                   task_id, pc, results, pipeline_vars>>

NextParse == parse_blocks_call

SpecParse == InitParse /\ [][NextParse]_vars

\* ---------------------------------------------------------------- video.py
None == 0             \* the width or height reported for a file without a video stream
DefaultWidth == 1080  \* first_info.get('width', 1080)
DefaultHeight == 1920 \* first_info.get('height', 1920)
FpsTolerance == 10    \* 0.01 frames per second, in thousandths

\* dict.get(key, default)
Get(dict, key, default) == IF key \in DOMAIN dict THEN dict[key] ELSE default

\* what get_video_info returns: {} when ffprobe or the parsing fails, the
\* placeholders when the file has no video stream, else the stream properties
\* (fps in thousandths)
EmptyInfo == [key \in {} |-> None]

NoVideoInfo == [video_codec |-> "None", width |-> None, height |-> None, fps |-> 0]

VideoInfos == [video_codec : {"h264", "hevc"}, width : {720, DefaultWidth},
               height : {1280, DefaultHeight}, fps : {30000, 30005, 30020}]

\* a path given to concatenate_videos: whether the file exists and what the
\* probe of it yields
Files == {[exists |-> FALSE, info |-> EmptyInfo]} \cup
         [exists : {TRUE}, info : {EmptyInfo, NoVideoInfo} \cup VideoInfos]

get_video_info(file) == file.info

\* faulty variant: the sign of the difference is kept
Abs_Signed(x) == x

Abs(x) == IF x < 0 THEN -x ELSE x

\* faulty variant: inputs whose probe yielded nothing are left out of the comparison
check_videos_compatible_SkipUnprobed(paths) ==
    IF Len(paths) < 2 THEN TRUE
    ELSE LET infos == [i \in 1..Len(paths) |-> get_video_info(paths[i])]
             first == infos[1]
         IN  \A i \in 2..Len(paths) :
                \/ infos[i] = EmptyInfo
                \/ /\ Get(infos[i], "video_codec", "None") = Get(first, "video_codec", "None")
                   /\ Get(infos[i], "width", None) = Get(first, "width", None)
                   /\ Get(infos[i], "height", None) = Get(first, "height", None)
                   /\ ~(Abs(Get(infos[i], "fps", 0) - Get(first, "fps", 0)) > FpsTolerance)

\* faulty variant: the heights are not compared
check_videos_compatible_NoHeight(paths) ==
    IF Len(paths) < 2 THEN TRUE
    ELSE LET infos == [i \in 1..Len(paths) |-> get_video_info(paths[i])]
             first == infos[1]
         IN  \A i \in 2..Len(paths) :
                /\ Get(infos[i], "video_codec", "None") = Get(first, "video_codec", "None")
                /\ Get(infos[i], "width", None) = Get(first, "width", None)
                /\ ~(Abs(Get(infos[i], "fps", 0) - Get(first, "fps", 0)) > FpsTolerance)

check_videos_compatible(paths) ==
    IF Len(paths) < 2 THEN TRUE
    ELSE LET infos == [i \in 1..Len(paths) |-> get_video_info(paths[i])]
             first == infos[1]
         IN  \A i \in 2..Len(paths) :
                /\ Get(infos[i], "video_codec", "None") = Get(first, "video_codec", "None")
                /\ Get(infos[i], "width", None) = Get(first, "width", None)
                /\ Get(infos[i], "height", None) = Get(first, "height", None)
                /\ ~(Abs(Get(infos[i], "fps", 0) - Get(first, "fps", 0)) > FpsTolerance)

ConcatInputs == SeqsUpTo(Files, MaxPaths)

InitConcat ==
    /\ max_concurrent_jobs = DefaultJobs
    /\ TTSIdle
    /\ DownloadIdle
    /\ PipelineIdle
    /\ ParseIdle
    /\ LoopIdle
    /\ video_paths \in ConcatInputs
    /\ output_file = NoOutput
    /\ concat_pc = "call"
    /\ calls = <<>>
    /\ ret = "none"

\* one call made by concatenate_videos: the exit status of its process, whether
\* output_path exists when it returns, what it returns
Call(op, status, present, result, target) ==
    [op |-> op, status |-> status, present |-> present, result |-> result,
     target |-> target]

Exists(file) == file.kind # "absent"

Return(value) == ret' = value /\ concat_pc' = "done"

\* faulty variant: a single input is handled like several
SingleInput_Never(paths) == FALSE

\* line 86
SingleInput(paths) == Len(paths) = 1

\* concatenate_videos up to the call of one of the two methods
concatenate_videos ==
    /\ concat_pc = "call"
    /\ IF video_paths = <<>>
       THEN Return("False") /\ UNCHANGED <<output_file, calls>>
       ELSE IF \E i \in DOMAIN video_paths : ~video_paths[i].exists
       THEN Return("False") /\ UNCHANGED <<output_file, calls>>
       ELSE IF SingleInput(video_paths)
       THEN /\ output_file' = [kind |-> "copy", of |-> <<1>>, size |-> <<>>]
            /\ calls' = Append(calls, Call("copy2", "none", TRUE, "None", <<>>))
            /\ Return("True")
       ELSE LET compatible == check_videos_compatible(video_paths)
            IN  /\ calls' = Append(calls, Call("check_videos_compatible", "none", FALSE,
                                               IF compatible THEN "True" ELSE "False",
                                               <<>>))
                /\ concat_pc' = IF compatible THEN "demuxer" ELSE "filter"
                /\ UNCHANGED <<output_file, ret>>
    /\ UNCHANGED <<video_paths, max_concurrent_jobs, tts_vars, download_vars, parse_vars, loop_vars, TASKS,
                   config, task_id, pc, results, pipeline_vars>>

\* what ffmpeg leaves at output_path: a new file when it wrote one, else
\* whatever was there
Written(created, file) == IF created THEN file ELSE output_file

\* faulty variant: the exit status alone decides, the output is not looked at
MethodResult_IgnoreOutput(proc_ok, file) == IF proc_ok THEN "True" ELSE "False"

\* check=True raises on a failed process; else output_path.exists() decides
MethodResult(proc_ok, file) == IF proc_ok /\ Exists(file) THEN "True" ELSE "False"

\* lines 105-149, and lines 95-98 of concatenate_videos
concatenate_with_demuxer(proc_ok, created) ==
    /\ concat_pc = "demuxer"
    /\ LET file   == Written(created, [kind |-> "demuxed",
                                       of |-> [i \in DOMAIN video_paths |-> i],
                                       size |-> <<>>])
           result == MethodResult(proc_ok, file)
       IN  /\ output_file' = file
           /\ calls' = Append(calls, Call("concatenate_with_demuxer",
                                      IF proc_ok THEN "ok" ELSE "failed",
                                      Exists(file), result, <<>>))
           /\ IF result = "True"
              THEN Return("True")
              ELSE concat_pc' = "filter" /\ UNCHANGED ret
    /\ UNCHANGED <<video_paths, max_concurrent_jobs, tts_vars, download_vars, parse_vars, loop_vars, TASKS,
                   config, task_id, pc, results, pipeline_vars>>

\* lines 152-211, and line 102 of concatenate_videos
concatenate_with_filter(proc_ok, created) ==
    /\ concat_pc = "filter"
    /\ LET first_info == get_video_info(video_paths[1])
           target == <<Get(first_info, "width", DefaultWidth),
                       Get(first_info, "height", DefaultHeight)>>
           file   == Written(created, [kind |-> "encoded",
                                       of |-> [i \in DOMAIN video_paths |-> i],
                                       size |-> target])
           result == MethodResult(proc_ok, file)
       IN  /\ output_file' = file
           /\ calls' = Append(calls, Call("concatenate_with_filter",
                                      IF proc_ok THEN "ok" ELSE "failed",
                                      Exists(file), result, target))
           /\ Return(result)
    /\ UNCHANGED <<video_paths, max_concurrent_jobs, tts_vars, download_vars, parse_vars, loop_vars, TASKS,
                   config, task_id, pc, results, pipeline_vars>>

NextConcat ==
    \/ concatenate_videos
    \/ \E proc_ok \in BOOLEAN, created \in BOOLEAN :
          concatenate_with_demuxer(proc_ok, created)
    \/ \E proc_ok \in BOOLEAN, created \in BOOLEAN :
          concatenate_with_filter(proc_ok, created)

SpecConcat == InitConcat /\ [][NextConcat]_vars

\* ---------------------------------------------------------------- the event loop
\* The blocking operations of one generation, in the order generate_all reaches
\* them, each with the way the source invokes it:
\*   "await"    an awaited coroutine doing asynchronous I/O (the loop is free)
\*   "executor" await loop.run_in_executor(...)            (the loop is free)
\*   "inline"   a plain call made by the coroutine itself  (the loop is inside it)
\*   "loop"     bookkeeping without a suspension point
Program ==
    << [name |-> "download_file",       mode |-> "await"],     \* line 63
       [name |-> "concatenate_videos",  mode |-> "inline"],    \* line 70
       [name |-> "download_audio",      mode |-> "await"],     \* line 123
       [name |-> "generate_speech",     mode |-> "executor"],  \* lines 92-98
       [name |-> "silent_audio",        mode |-> "inline"],    \* lines 102-105
       [name |-> "mix_audio_tracks",    mode |-> "executor"],  \* lines 170-176
       [name |-> "add_audio_to_video",  mode |-> "executor"],  \* lines 273-279
       [name |-> "upload_file",         mode |-> "executor"],  \* lines 283-288
       [name |-> "progress_callback",   mode |-> "loop"] >>    \* lines 302-304

\* block concatenation, silent-audio generation, mixing, rendering, publish
External == {"concatenate_videos", "silent_audio", "mix_audio_tracks",
             "add_audio_to_video", "upload_file"}

Coroutines == 1..MaxCoroutines

InitLoop ==
    /\ max_concurrent_jobs = DefaultJobs
    /\ TTSIdle
    /\ DownloadIdle
    /\ PipelineIdle
    /\ ParseIdle
    /\ ConcatIdle
    /\ co = [c \in Coroutines |-> [at |-> 1, phase |-> "ready"]]
    /\ loop_thread = "free"

\* the coroutine runs on the loop from operation i to its next suspension
RECURSIVE RunFrom(_)
RunFrom(i) ==
    IF i > Len(Program) THEN [at |-> i, phase |-> "done"]
    ELSE IF Program[i].mode = "loop" THEN RunFrom(i + 1)
    ELSE IF Program[i].mode = "inline" THEN [at |-> i, phase |-> "inline"]
    ELSE [at |-> i, phase |-> "suspended"]

Occupied(c) == IF c.phase = "inline" THEN "busy" ELSE "free"

loop_unchanged ==
    UNCHANGED <<max_concurrent_jobs, tts_vars, download_vars, parse_vars, concat_vars, TASKS, config,
                task_id, pc, results, pipeline_vars>>

\* the loop picks a ready coroutine and runs it to its next suspension
resume(c) ==
    /\ loop_thread = "free"
    /\ co[c].phase = "ready"
    /\ co' = [co EXCEPT ![c] = RunFrom(co[c].at)]
    /\ loop_thread' = Occupied(co'[c])
    /\ loop_unchanged

\* the awaited operation finishes off the loop; success of generate_speech
\* skips the silent-audio branch
awaited_done(c, success) ==
    /\ co[c].phase = "suspended"
    /\ LET op == Program[co[c].at].name
           next == IF op = "generate_speech" /\ success THEN co[c].at + 2
                   ELSE co[c].at + 1
       IN  co' = [co EXCEPT ![c] = [at |-> next, phase |-> "ready"]]
    /\ UNCHANGED loop_thread
    /\ loop_unchanged

\* the inline call returns and the coroutine runs on to its next suspension
inline_done(c) ==
    /\ co[c].phase = "inline"
    /\ co' = [co EXCEPT ![c] = RunFrom(co[c].at + 1)]
    /\ loop_thread' = Occupied(co'[c])
    /\ loop_unchanged

NextLoop ==
    \/ \E c \in Coroutines : resume(c)
    \/ \E c \in Coroutines, success \in BOOLEAN : awaited_done(c, success)
    \/ \E c \in Coroutines : inline_done(c)

SpecLoop == InitLoop /\ [][NextLoop]_vars

\* ---------------------------------------------------------------- the mix stage
\* generate_all at line 252 of a task with one block whose audio tracks and
\* voice clips are all on disk: the state Spec reaches at the mix stage, with
\* up to MaxMixAudio x MaxMixVoice pairings
InitMix ==
    /\ max_concurrent_jobs = DefaultJobs
    /\ TTSIdle
    /\ DownloadIdle
    /\ ParseIdle /\ ConcatIdle /\ LoopIdle
    /\ \E A \in 1..MaxMixAudio, V \in 1..MaxMixVoice :
          /\ audio_urls = [i \in 1..A |-> "a"]
          /\ voice_configs = [i \in 1..V |-> "s"]
          /\ audio_files = [i \in 1..A |-> i - 1]
          /\ tts_files = [i \in 1..V |-> i - 1]
          /\ fetches = 1 + A
    /\ TASKS = [t \in TaskIds |-> [NewTask EXCEPT !.status = "processing"]]
    /\ task_id \in TaskIds
    /\ config = NoRequest
    /\ pc = "mixes"
    /\ results = NewResults
    /\ video_blocks = << <<"v">> >>
    /\ temp_dir = "exists"
    /\ block_i = 1 /\ video_j = 1
    /\ base_videos = <<1>>
    /\ tts_silent = {}
    /\ mix_i = 0
    /\ mixed_audio_files = <<>>
    /\ total_variants = 0
    /\ completed = 0
    /\ semaphore = 0
    /\ tasks = <<>>
    /\ unit = <<>>
    /\ reported = <<>>
    /\ ingest_failed = FALSE
    /\ mix_failures = 0
    /\ local_outputs = {}

NextMix ==
    \/ \E success \in BOOLEAN : create_audio_mixes(success)
    \/ \E u \in DOMAIN unit : unit_acquire(u)
    \/ \E u \in DOMAIN unit : \E success \in BOOLEAN : render_done(u, success)
    \/ \E u \in DOMAIN unit : \E url \in BOOLEAN : upload_done(u, url)
    \/ gather_done

SpecMix == InitMix /\ [][NextMix]_vars


\* ------------------------------------------------------------ services/tts.py
\* One TTSService is built in main.py and given to the generator, so every task
\* resolves its voices through the same instance. generate_speech is called
\* through run_in_executor, so two tasks can be inside get_voice_id on two
\* pool threads; the blocking call to the provider is where a thread is
\* descheduled.

MaxThreads == 2   \* pool threads inside generate_speech at the same time
MaxLookups == 2   \* get_voice_id calls each thread makes

VoiceNames == {"Rachel", "Adam", "Bella"}

\* get_voice_id returned None
NoVoice == "None"

Voice(n, i) == [name |-> n, voice_id |-> i]

\* what client.voices.get_all() lists, in listing order
Catalogues == { <<>>,
                <<Voice("Rachel", "id1")>>,
                <<Voice("Adam", "id2"), Voice("Rachel", "id1")>> }

Threads == 1..MaxThreads

NotCalled == [pc |-> "idle", voice_name |-> "", lookups |-> 0, result |-> "",
              loaded_before |-> FALSE]

InitTTS ==
    /\ max_concurrent_jobs = DefaultJobs
    /\ DownloadIdle
    /\ PipelineIdle
    /\ ParseIdle
    /\ ConcatIdle
    /\ LoopIdle
    /\ client \in BOOLEAN
    /\ provider_voices \in Catalogues
    /\ voices_cache = NoCache
    /\ thread = [t \in Threads |-> NotCalled]
    /\ catalogue_loads = 0

\* line 19: "if self._voices_cache" is true of a non-empty dict only
Cached(cache) == cache.loaded /\ cache.voices # <<>>

Names(voices) == {voices[i].name : i \in DOMAIN voices}

Ids(voices) == {voices[i].voice_id : i \in DOMAIN voices}

\* line 43: voices.get(voice_name)
Lookup(voices, name) ==
    IF name \in Names(voices)
    THEN voices[CHOOSE i \in DOMAIN voices : voices[i].name = name].voice_id
    ELSE NoVoice

\* lines 39-50: the rest of get_voice_id once the catalogue is known
Resolve(voices, name) ==
    IF voices = <<>> THEN NoVoice
    ELSE IF Lookup(voices, name) = NoVoice THEN voices[1].voice_id
    ELSE Lookup(voices, name)

tts_unchanged ==
    UNCHANGED <<max_concurrent_jobs, download_vars, parse_vars, concat_vars,
                loop_vars, TASKS, config, task_id, pc, results, pipeline_vars,
                client, provider_voices>>

\* get_voice_id is entered: lines 37 and 19-24, up to the call to the provider
get_voice_id(t, name) ==
    /\ thread[t].pc = "idle"
    /\ thread[t].lookups < MaxLookups
    /\ LET call == [NotCalled EXCEPT !.voice_name = name,
                                      !.lookups = thread[t].lookups + 1,
                                      !.loaded_before = voices_cache.loaded]
       IN  thread' = [thread EXCEPT ![t] =
               IF Cached(voices_cache)
               THEN [call EXCEPT !.result = Resolve(voices_cache.voices, name)]
               ELSE IF ~client
               THEN [call EXCEPT !.result = Resolve(<<>>, name)]
               ELSE [call EXCEPT !.pc = "fetching"]]
    /\ UNCHANGED <<voices_cache, catalogue_loads>>
    /\ tts_unchanged

\* lines 25-34: client.voices.get_all() returns the catalogue or raises
get_all_returns(t, ok) ==
    /\ thread[t].pc = "fetching"
    /\ IF ok
       THEN /\ voices_cache' = [loaded |-> TRUE, voices |-> provider_voices]
            /\ catalogue_loads' = catalogue_loads + 1
            /\ thread' = [thread EXCEPT ![t].pc = "idle",
                             ![t].result = Resolve(provider_voices, thread[t].voice_name)]
       ELSE /\ thread' = [thread EXCEPT ![t].pc = "idle",
                             ![t].result = Resolve(<<>>, thread[t].voice_name)]
            /\ UNCHANGED <<voices_cache, catalogue_loads>>
    /\ tts_unchanged

NextTTS ==
    \/ \E t \in Threads : \E name \in VoiceNames : get_voice_id(t, name)
    \/ \E t \in Threads : \E ok \in BOOLEAN : get_all_returns(t, ok)

SpecTTS == InitTTS /\ [][NextTTS]_vars


\* ------------------------------------------------------- services/download.py
\* download_file in steps: the request, opening the destination, reading the
\* body, writing it. Every exception is caught at line 22 and turned into False.

MaxDownloads == 2       \* download_file calls made one after another
MaxDownloadPaths == 2   \* destination paths

DownloadPaths == 1..MaxDownloadPaths

\* no response: session.get raised (connection error, timeout)
NoResponse == 0

Statuses == {200, 204, 404, 500}

InitDownload ==
    /\ max_concurrent_jobs = DefaultJobs
    /\ TTSIdle
    /\ PipelineIdle
    /\ ParseIdle
    /\ ConcatIdle
    /\ LoopIdle
    /\ disk \in [DownloadPaths -> {"absent", "earlier"}]
    /\ download_pc = "idle"
    /\ dest_path = 0
    /\ resp_status = NoResponse
    /\ download_ret = "none"
    /\ touched = FALSE
    /\ downloads = 0

download_unchanged ==
    UNCHANGED <<max_concurrent_jobs, tts_vars, parse_vars, concat_vars, loop_vars,
                TASKS, config, task_id, pc, results, pipeline_vars>>

\* line 16: only status 200 goes on to the destination
Accepted(status) == status = 200

\* lines 12-15 and 19-24: the call starts and the response, or an exception, arrives
download_file(path, status) ==
    /\ download_pc = "idle"
    /\ downloads < MaxDownloads
    /\ downloads' = downloads + 1
    /\ dest_path' = path
    /\ resp_status' = status
    /\ touched' = FALSE
    /\ IF status # NoResponse /\ Accepted(status)
       THEN download_pc' = "open" /\ download_ret' = "none"
       ELSE download_pc' = "idle" /\ download_ret' = "False"
    /\ UNCHANGED disk
    /\ download_unchanged

\* line 17: aiofiles.open(dest_path, 'wb') creates or truncates the file, or raises
open_done(ok) ==
    /\ download_pc = "open"
    /\ IF ok
       THEN /\ disk' = [disk EXCEPT ![dest_path] = "empty"]
            /\ touched' = TRUE
            /\ download_pc' = "read"
            /\ UNCHANGED download_ret
       ELSE /\ download_pc' = "idle"
            /\ download_ret' = "False"
            /\ UNCHANGED <<disk, touched>>
    /\ UNCHANGED <<dest_path, resp_status, downloads>>
    /\ download_unchanged

\* line 18: resp.read() returns the body, or the transfer breaks or times out
read_done(ok) ==
    /\ download_pc = "read"
    /\ IF ok
       THEN download_pc' = "write" /\ UNCHANGED download_ret
       ELSE download_pc' = "idle" /\ download_ret' = "False"
    /\ UNCHANGED <<disk, dest_path, resp_status, touched, downloads>>
    /\ download_unchanged

\* lines 18-19: f.write stores the whole body and the call returns True, or it
\* raises with nothing or a part of the body stored
write_done(stored) ==
    /\ download_pc = "write"
    /\ disk' = [disk EXCEPT ![dest_path] = stored]
    /\ download_pc' = "idle"
    /\ download_ret' = IF stored = "complete" THEN "True" ELSE "False"
    /\ UNCHANGED <<dest_path, resp_status, touched, downloads>>
    /\ download_unchanged

NextDownload ==
    \/ \E path \in DownloadPaths : \E status \in Statuses \cup {NoResponse} :
           download_file(path, status)
    \/ \E ok \in BOOLEAN : open_done(ok)
    \/ \E ok \in BOOLEAN : read_done(ok)
    \/ \E stored \in {"empty", "partial", "complete"} : write_done(stored)

SpecDownload == InitDownload /\ [][NextDownload]_vars


\* ---------------------------------------------------------------- properties
Range(f) == {f[i] : i \in DOMAIN f}

Units == DOMAIN unit
InCritical == {u \in Units : unit[u] \in {"render", "upload"}}
FinishedUnits == {u \in Units : unit[u] \in Finished}
FailedUnits == {u \in Units : unit[u] \in {"render_failed", "publish_failed"}}

SuccessfulIds == [i \in 1..Len(results.successful) |-> results.successful[i].variant_id]
RecordedIds == SuccessfulIds \o results.failed
Occurrences(s, x) == Cardinality({i \in 1..Len(s) : s[i] = x})

Completed(rep) == rep[1]
Total(rep) == rep[2]

\* C1: at most max_concurrent_jobs render units are between the semaphore acquire
\* and its release (rendering or uploading; the progress callback runs inside
\* the step that releases).
C1_AdmissionControl == Cardinality(InCritical) <= max_concurrent_jobs

C1_Witness ==
    /\ max_concurrent_jobs = 2
    /\ Cardinality(InCritical) = 2
    /\ \E u \in Units : unit[u] = "waiting"
    /\ FinishedUnits # {}

\* C2: when generate_all has returned without an error, every attempted variant
\* identity is exactly once in successful ++ failed, so the two lists are
\* disjoint and their lengths add up to total.
C2_OutcomePartition ==
    (pc = "returned" /\ ~HasError(results)) =>
        /\ Len(results.successful) + Len(results.failed) = results.total
        /\ Len(tasks) = results.total
        /\ \A u \in DOMAIN tasks :
               Occurrences(RecordedIds, variant_id(task_id, tasks[u])) = 1

C2_Witness ==
    /\ pc = "returned" /\ ~HasError(results)
    /\ results.total = 4
    /\ Len(results.successful) = 2
    /\ Len(results.failed) = 2

\* C3: once the total is fixed (step 5), results.total and the total of every
\* progress report equal blocks x successful mixes; the successful mixes are at
\* most audio URLs x voice lines, with equality iff no pairing failed to mix.
C3_CartesianCount ==
    reported # <<>> =>
        /\ results.total = Len(video_blocks) * Len(mixed_audio_files)
        /\ \A i \in 1..Len(reported) : Total(reported[i]) = results.total
        /\ Len(mixed_audio_files) <= Len(audio_urls) * Len(voice_configs)
        /\ (Len(mixed_audio_files) = Len(audio_urls) * Len(voice_configs))
               <=> (mix_failures = 0)

C3_Witness ==
    /\ Len(reported) >= 2
    /\ Len(video_blocks) = 2
    /\ Len(audio_urls) = 2
    /\ mix_failures = 1
    /\ results.total = 2

\* C4: the completed values given to the progress callback never decrease, never
\* exceed total, and the last one equals total exactly when every render unit
\* has finished; the registry holds the last reported value.
C4_ProgressMonotone ==
    /\ \A i \in 1..Len(reported) : \A j \in 1..Len(reported) :
           i <= j => Completed(reported[i]) <= Completed(reported[j])
    /\ \A i \in 1..Len(reported) : Completed(reported[i]) <= Total(reported[i])
    /\ reported # <<>> =>
           /\ (Completed(reported[Len(reported)]) = Total(reported[Len(reported)]))
                  <=> AllDone(unit)
           /\ TASKS[task_id].completed = Completed(reported[Len(reported)])
           /\ TASKS[task_id].total = Total(reported[Len(reported)])

C4_Witness ==
    /\ Len(reported) = 5
    /\ Completed(reported[5]) = 4
    /\ TASKS[task_id].completed = 4
    /\ AllDone(unit)

\* C5: the callback is invoked once with completed = 0 before any unit starts and
\* then exactly once per finished unit, whatever the unit's outcome: the i-th
\* report after the first carries completed = i, and the counter equals the
\* number of finished units.
C5_ExactlyOnceProgress ==
    /\ reported = <<>> => (Units = {} /\ completed = 0)
    /\ reported # <<>> =>
           /\ Len(reported) = 1 + Cardinality(FinishedUnits)
           /\ \A i \in 1..Len(reported) : reported[i] = <<i - 1, total_variants>>
           /\ completed = Cardinality(FinishedUnits)

C5_Witness ==
    /\ \E u \in Units : unit[u] = "ok"
    /\ \E u \in Units : unit[u] = "render_failed"
    /\ \E u \in Units : unit[u] = "publish_failed"
    /\ Len(reported) = 4

\* C6: a unit that failed at render or at publish is in results.failed and has
\* given its semaphore slot back, the result carries no error, and once
\* run_generation has returned every unit has finished, the status is completed
\* and failed_count is the number of failed units.
C6_PartialFailure ==
    /\ \A u \in FailedUnits :
           /\ Occurrences(results.failed, variant_id(task_id, tasks[u])) = 1
           /\ ~HasError(results)
    /\ pc = "gather" => semaphore + Cardinality(InCritical) = max_concurrent_jobs
    /\ (pc = "returned" /\ FailedUnits # {}) =>
           /\ AllDone(unit)
           /\ TASKS[task_id].status = "completed"
           /\ TASKS[task_id].failed_count = Cardinality(FailedUnits)
           /\ Len(TASKS[task_id].results) = Cardinality(Units \ FailedUnits)

C6_Witness ==
    /\ pc = "returned"
    /\ \E u \in Units : unit[u] = "render_failed"
    /\ \E u \in Units : unit[u] = "publish_failed"
    /\ \E u \in Units : unit[u] = "ok"
    /\ TASKS[task_id].status = "completed"
    /\ TASKS[task_id].failed_count = 2

\* C7: after a failed block download, audio download or concatenation the result
\* carries an error, the task is failed, no render unit exists and no progress
\* was reported, and successful and failed are empty.
C7_FatalIngestion ==
    ingest_failed =>
        /\ pc = "returned"
        /\ HasError(results)
        /\ TASKS[task_id].status = "failed"
        /\ TASKS[task_id].error = results.error
        /\ tasks = <<>> /\ unit = <<>> /\ reported = <<>>
        /\ results.successful = <<>> /\ results.failed = <<>>

C7_Witness ==
    /\ ingest_failed
    /\ results.error[1] = "Failed to download audio"
    /\ Len(base_videos) = 2
    /\ TASKS[task_id].status = "failed"

\* C8: whenever generate_all has returned after creating the temporary
\* directory, the directory has been removed.
C8_TempDirRemoved == (pc = "returned" /\ temp_dir # "none") => temp_dir = "removed"

\* C9: every voice line gets a voice file, in order, also when its synthesis
\* failed; a synthesis failure never puts an error into the result, and it
\* changes neither the number of pairings attempted nor, when no pairing fails
\* to mix, the variant total.
C9_SynthesisAbsorbed ==
    /\ \A i \in 1..Len(tts_files) : tts_files[i] = i - 1
    /\ Len(tts_files) <= Len(voice_configs)
    /\ tts_silent \subseteq Range(tts_files)
    /\ tts_silent # {} => ~HasError(results)
    /\ pc = "mixes" => Len(tts_files) = Len(voice_configs)
    /\ reported # <<>> =>
           /\ Len(tts_files) = Len(voice_configs)
           /\ Len(mixed_audio_files) + mix_failures = Len(audio_urls) * Len(voice_configs)
           /\ mix_failures = 0 =>
                  results.total = Len(video_blocks) * Len(audio_urls) * Len(voice_configs)

C9_Witness ==
    /\ tts_silent # {}
    /\ pc = "returned"
    /\ mix_failures = 0
    /\ results.total = 4

\* C10: when parsing yields an empty family, generate_all returns the message of
\* the first empty family in the order blocks, audio, voices, the three messages
\* differ, and nothing was created, fetched or reported; the task is failed.
C10_ValidationFailure ==
    (pc = "returned" /\
     (video_blocks = <<>> \/ audio_urls = <<>> \/ voice_configs = <<>>)) =>
        /\ results.error =
               (IF video_blocks = <<>> THEN <<"No video blocks found">>
                ELSE IF audio_urls = <<>> THEN <<"No audio URLs found">>
                ELSE <<"No voice configs found">>)
        /\ Cardinality({<<"No video blocks found">>, <<"No audio URLs found">>,
                        <<"No voice configs found">>}) = 3
        /\ temp_dir = "none" /\ fetches = 0 /\ reported = <<>>
        /\ TASKS[task_id].status = "failed"
        /\ TASKS[task_id].error = results.error

C10_Witness ==
    /\ pc = "returned"
    /\ video_blocks # <<>>
    /\ audio_urls = <<>>
    /\ voice_configs = <<>>
    /\ results.error = <<"No audio URLs found">>

\* C11: generate_all never raises: every run ends by returning a result with
\* the successful list, the failed list and the total; the result has an error
\* field exactly when validation failed or the run was aborted by an ingestion
\* failure, in both cases before any rendering unit exists; synthesis, mixing,
\* render and publish failures never set it.
Parsed == [video_blocks |-> video_blocks, audio_urls |-> audio_urls,
           voice_configs |-> voice_configs]

C11_NeverRaises ==
    /\ pc # "raised"
    /\ {"successful", "failed", "total"} \subseteq DOMAIN results
    /\ pc = "returned" =>
          /\ HasError(results) <=> (validate(Parsed) # NoError \/ ingest_failed)
          /\ HasError(results) => Units = {} /\ reported = <<>>
          /\ (Units # {} \/ reported # <<>>) => ~HasError(results)
    /\ pc # "returned" => ~HasError(results)

C11_Witness ==
    /\ pc = "returned"
    /\ ~HasError(results)
    /\ tts_silent # {}
    /\ mix_failures > 0
    /\ \E u, w \in Units : unit[u] = "render_failed" /\ unit[w] = "publish_failed"

\* C12: the status of a task moves only queued -> processing -> completed or
\* failed; a terminal status never changes afterwards; the status is completed
\* exactly when the generation call has returned a result without an error
\* field, and failed exactly when it has returned one with an error field.
Status == IF task_id \in DOMAIN TASKS THEN TASKS[task_id].status ELSE "none"

StatusSteps == {<<"none", "queued">>, <<"queued", "processing">>,
                <<"processing", "completed">>, <<"processing", "failed">>}

C12_StatusMachine ==
    [][/\ Status' # Status => <<Status, Status'>> \in StatusSteps
       /\ Status \in {"completed", "failed"} => TASKS' = TASKS
       /\ Status' = "completed" <=> (pc' = "returned" /\ ~HasError(results'))
       /\ Status' = "failed" <=> (pc' = "returned" /\ HasError(results'))]_vars

C12_Witness ==
    /\ pc = "returned"
    /\ Status = "completed"
    /\ TASKS[task_id].completed_at = "set"
    /\ Units # {}
    /\ FailedUnits = Units

\* C13: with B base videos and M mixes, the variant of base video b (block
\* name "block<b>") and mix m is numbered (b - 1) * M + m and named
\* <task id>_block<b>_v<number>; the numbering is fixed by the two lists before
\* any unit runs, the identifiers of one run are pairwise distinct, and the
\* identifier a unit records does not depend on the order units finish in.
VariantIdOf(u) == variant_id(task_id, tasks[u])

C13_VariantNaming ==
    Units # {} =>
        LET B == Len(base_videos)
            M == Len(mixed_audio_files)
        IN  /\ DOMAIN tasks = 1..(B * M)
            /\ Units = DOMAIN tasks
            /\ \A b \in 1..B : \A m \in 1..M :
                  LET t == tasks[(b - 1) * M + m]
                  IN  /\ t.block_name = base_videos[b]
                      /\ t.block_name = b
                      /\ t.mixed_audio = mixed_audio_files[m]
                      /\ variant_id(task_id, t) = <<task_id, b, (b - 1) * M + m>>
            /\ \A u, w \in Units : u # w => VariantIdOf(u) # VariantIdOf(w)
            /\ Range(RecordedIds) = {VariantIdOf(u) : u \in FinishedUnits}
            /\ Range(results.failed) = {VariantIdOf(u) : u \in FailedUnits}

C13_Witness ==
    /\ Len(base_videos) = 2
    /\ Len(mixed_audio_files) = 2
    /\ Len(RecordedIds) = 2
    /\ RecordedIds[1] = <<task_id, 2, 4>>
    /\ RecordedIds[2] = <<task_id, 1, 2>>

\* C19: before any render unit exists every block has been assembled, every
\* audio track fetched, every voice synthesised and every pairing mixed, in
\* that order; the total is fixed before the first unit starts and every
\* progress report carries it.
C19_StageOrdering ==
    /\ pc \in {"audio", "tts", "mixes", "gather"} =>
          Len(base_videos) = Len(video_blocks)
    /\ pc \in {"tts", "mixes", "gather"} => Len(audio_files) = Len(audio_urls)
    /\ pc \in {"mixes", "gather"} => Len(tts_files) = Len(voice_configs)
    /\ pc \in {"blocks", "audio", "tts", "mixes"} => Units = {} /\ reported = <<>>
    /\ Units # {} =>
          /\ Len(base_videos) = Len(video_blocks)
          /\ Len(audio_files) = Len(audio_urls)
          /\ Len(tts_files) = Len(voice_configs)
          /\ mix_i = Len(audio_files) * Len(tts_files)
          /\ Len(mixed_audio_files) + mix_failures = mix_i
          /\ total_variants = Len(base_videos) * Len(mixed_audio_files)
          /\ results.total = total_variants
          /\ Cardinality(Units) = total_variants
          /\ \A i \in DOMAIN reported : Total(reported[i]) = total_variants

C19_Witness ==
    /\ pc = "gather"
    /\ Len(video_blocks) = 2
    /\ Len(audio_urls) = 2
    /\ mix_failures = 1
    /\ \E u \in Units : unit[u] = "render"
    /\ Len(reported) = 2

\* C14: for a mapping holding block1..blockN (each a non-empty list),
\* audio1..audioM and voice1..voiceP (each a list) and no further index of a
\* family, parse_blocks returns exactly the N blocks in index order, the
\* audio lists concatenated in index order and the voice lists concatenated in
\* index order; a key outside the three families contributes nothing.
Present(f) == {k \in DOMAIN f : f[k] # Missing}

GapFree(f) == \A k \in Present(f) : \A i \in 1..k : i \in Present(f)

RECURSIVE Offset(_, _)
Offset(f, k) == IF k <= 1 THEN 0 ELSE Offset(f, k - 1) + Len(f[k - 1].items)

\* out is the lists of f[1..n] one after the other
Concatenated(out, f, n) ==
    /\ Len(out) = Offset(f, n + 1)
    /\ \A k \in 1..n : \A j \in 1..Len(f[k].items) :
          out[Offset(f, k) + j] = f[k].items[j]

C14_ParsingCompleteness ==
    (/\ parsed.called
     /\ GapFree(data.block) /\ GapFree(data.audio) /\ GapFree(data.voice)
     /\ \A k \in Present(data.block) : IsNonEmptyList(data.block[k])
     /\ \A k \in Present(data.audio) : IsList(data.audio[k])
     /\ \A k \in Present(data.voice) : IsList(data.voice[k]))
    => /\ Len(parsed.video_blocks) = Cardinality(Present(data.block))
       /\ \A k \in Present(data.block) : parsed.video_blocks[k] = data.block[k].items
       /\ Concatenated(parsed.audio_urls, data.audio, Cardinality(Present(data.audio)))
       /\ Concatenated(parsed.voice_configs, data.voice, Cardinality(Present(data.voice)))
       /\ \A x \in Range(data.other.items) :
             /\ x \notin Range(parsed.audio_urls) \cup Range(parsed.voice_configs)
             /\ \A b \in Range(parsed.video_blocks) : x \notin Range(b)

C14_Witness ==
    /\ parsed.called
    /\ data.other # Missing
    /\ \A k \in 1..MaxParseKeys :
          /\ IsList(data.block[k]) /\ Len(data.block[k].items) = 2
          /\ IsList(data.audio[k]) /\ Len(data.audio[k].items) = 2
          /\ IsList(data.voice[k]) /\ Len(data.voice[k].items) = 1
    /\ Len(parsed.video_blocks) = MaxParseKeys
    /\ Len(parsed.audio_urls) = 2 * MaxParseKeys

\* C15: for each family, scanning stops at the first index whose key is missing
\* or whose value is an empty list: no entry with a greater index contributes
\* to the output, so a block after an empty block<i> is not retained.
StopsAt(f, i) == f[i] = Missing \/ (IsList(f[i]) /\ f[i].items = <<>>)

NothingAfter(out, f) ==
    \A i \in DOMAIN f : StopsAt(f, i) =>
        \A k \in DOMAIN f : k > i => \A x \in Range(f[k].items) : x \notin out

C15_StopsAtEmptyOrMissing ==
    parsed.called =>
        /\ NothingAfter(UNION {Range(b) : b \in Range(parsed.video_blocks)}, data.block)
        /\ NothingAfter(Range(parsed.audio_urls), data.audio)
        /\ NothingAfter(Range(parsed.voice_configs), data.voice)

\* C16: given two or more existing inputs of which one differs from the first
\* in codec, width, height, or by more than 0.01 fps in frame rate,
\* concatenate_videos never runs the stream-copy method; it runs the re-encode
\* method once, with the first input's width and height as the target, and
\* returns its result.
AllExist == \A i \in DOMAIN video_paths : video_paths[i].exists

DiffersFromFirst(i) ==
    LET first == video_paths[1].info
        info  == video_paths[i].info
    IN  \/ Get(info, "video_codec", "None") # Get(first, "video_codec", "None")
        \/ Get(info, "width", None) # Get(first, "width", None)
        \/ Get(info, "height", None) # Get(first, "height", None)
        \/ Abs(Get(info, "fps", 0) - Get(first, "fps", 0)) > FpsTolerance

Incompatible ==
    /\ Len(video_paths) >= 2
    /\ AllExist
    /\ \E i \in 2..Len(video_paths) : DiffersFromFirst(i)

IsDemuxer(c) == c.op = "concatenate_with_demuxer"
IsFilter(c) == c.op = "concatenate_with_filter"
IsProbe(c) == c.op = "check_videos_compatible"

OnlySafePath ==
    /\ concat_pc # "demuxer"
    /\ SelectSeq(calls, IsDemuxer) = <<>>
    /\ concat_pc = "done" =>
          /\ Len(SelectSeq(calls, IsFilter)) = 1
          /\ ret = SelectSeq(calls, IsFilter)[1].result

Compatible ==
    /\ Len(video_paths) >= 2
    /\ AllExist
    /\ \A i \in 2..Len(video_paths) : ~DiffersFromFirst(i)

C17_FastPathFallback ==
    Compatible =>
        LET fast == SelectSeq(calls, IsDemuxer)
            safe == SelectSeq(calls, IsFilter)
        IN  /\ Len(fast) <= 1 /\ Len(safe) <= 1
            /\ safe # <<>> => fast # <<>> /\ calls[Len(calls)] = safe[1]
            /\ concat_pc = "filter" => fast # <<>>
            /\ fast # <<>> =>
                  /\ fast[1].result = "False" <=>
                        (fast[1].status = "failed" \/ ~fast[1].present)
                  /\ fast[1].result = "False" => concat_pc = "filter" \/ safe # <<>>
                  /\ fast[1].result = "True" =>
                        concat_pc = "done" /\ safe = <<>> /\ ret = "True"
            /\ concat_pc = "done" =>
                  /\ fast # <<>>
                  /\ safe # <<>> => ret = safe[1].result
                  /\ ret = "False" => safe # <<>> /\ safe[1].result = "False"
                  /\ ret = "True" => Exists(output_file)

C17_Witness ==
    /\ Compatible
    /\ concat_pc = "done"
    /\ Len(calls) = 3
    /\ calls[2].op = "concatenate_with_demuxer"
    /\ calls[2].status = "ok" /\ ~calls[2].present
    /\ calls[3].op = "concatenate_with_filter"
    /\ ret = "True"

\* C18: given exactly one existing input, concatenate_videos copies it to the
\* output, returns success and runs neither the probe nor either method; given
\* no input or an input that does not exist it returns failure and produces
\* no output.
C18_SingleInputPassthrough ==
    concat_pc = "done" =>
        /\ (Len(video_paths) = 1 /\ AllExist) =>
              /\ output_file.kind = "copy" /\ output_file.of = <<1>>
              /\ ret = "True"
              /\ \A i \in DOMAIN calls :
                    ~IsProbe(calls[i]) /\ ~IsDemuxer(calls[i]) /\ ~IsFilter(calls[i])
        /\ (video_paths = <<>> \/ ~AllExist) =>
              ret = "False" /\ output_file = NoOutput /\ calls = <<>>

C18_Witness ==
    /\ concat_pc = "done"
    /\ Len(video_paths) = 1
    /\ video_paths[1].exists
    /\ video_paths[1].info \in VideoInfos
    /\ output_file.kind = "copy"
    /\ ret = "True"

\* C20: while one task executes an external operation (block concatenation,
\* silent-audio generation, mixing, rendering, publish) the loop can still run
\* another coroutine that is ready: every such operation runs off the loop.
InExternal(c) ==
    /\ co[c].phase \in {"inline", "suspended"}
    /\ Program[co[c].at].name \in External

C20_LoopNotBlocked ==
    \A c \in DOMAIN co : \A d \in DOMAIN co :
        (c # d /\ InExternal(c) /\ co[d].phase = "ready") => loop_thread = "free"

\* C23: for two or more files check_videos_compatible returns true exactly
\* when every file's probed codec, width and height equal the first file's
\* and its frame rate is within 0.01 fps of the first file's; the verdict
\* depends on the probed properties only, and the stream-copy method is
\* attempted exactly when the verdict is true.
Probed(file, key) == IF key \in DOMAIN file.info THEN file.info[key]
                     ELSE IF key = "video_codec" THEN "None"
                     ELSE IF key = "fps" THEN 0 ELSE None

Matches(file, first) ==
    /\ Probed(file, "video_codec") = Probed(first, "video_codec")
    /\ Probed(file, "width") = Probed(first, "width")
    /\ Probed(file, "height") = Probed(first, "height")
    /\ Probed(file, "fps") - Probed(first, "fps") <= FpsTolerance
    /\ Probed(first, "fps") - Probed(file, "fps") <= FpsTolerance

NoneProbed == \A i \in DOMAIN video_paths : video_paths[i].info = EmptyInfo

FirstOnlyProbed ==
    /\ video_paths[1].info \in VideoInfos
    /\ \E i \in 2..Len(video_paths) : video_paths[i].info = EmptyInfo

C29_ProbeFailure ==
    (Len(video_paths) >= 2 /\ AllExist /\ concat_pc # "call") =>
        /\ NoneProbed =>
              /\ calls[1].op = "check_videos_compatible" /\ calls[1].result = "True"
              /\ Len(calls) >= 2 => calls[2].op = "concatenate_with_demuxer"
              /\ concat_pc = "done" => Len(calls) >= 2
        /\ FirstOnlyProbed =>
              /\ calls[1].op = "check_videos_compatible" /\ calls[1].result = "False"
              /\ concat_pc # "demuxer"
              /\ \A i \in DOMAIN calls : calls[i].op # "concatenate_with_demuxer"
              /\ concat_pc = "done" =>
                    Len(calls) = 2 /\ calls[2].op = "concatenate_with_filter"

C29_Witness ==
    /\ Len(video_paths) = 2
    /\ AllExist
    /\ NoneProbed
    /\ concat_pc = "done"
    /\ Len(calls) = 3
    /\ calls[2].op = "concatenate_with_demuxer"
    /\ calls[2].result = "False"

\* C22: a pairing that fails to mix is left out of the mix list, without retry
\* and without aborting the task; the mixes kept are in audio-major,
\* voice-minor order; if every pairing fails the task ends completed with
\* total 0, no render unit, empty successful and failed lists and the single
\* progress report (0, 0).
\* line 162: list(product(audio_files, tts_files))
combinations(af, tf) ==
    [k \in 1..(Len(af) * Len(tf)) |->
        <<af[((k - 1) \div Len(tf)) + 1], tf[((k - 1) % Len(tf)) + 1]>>]

\* the pairing mixed into mixed_<idx>.mp3
PairOf(idx) == combinations(audio_files, tts_files)[idx + 1]

Before(p, q) == p[1] < q[1] \/ (p[1] = q[1] /\ p[2] < q[2])

C22_MixOmission ==
    /\ mix_i <= Len(audio_files) * Len(tts_files)
    /\ Len(mixed_audio_files) + mix_failures = mix_i
    /\ \A i \in DOMAIN mixed_audio_files : mixed_audio_files[i] < mix_i
    /\ \A i, j \in DOMAIN mixed_audio_files :
          i < j => Before(PairOf(mixed_audio_files[i]), PairOf(mixed_audio_files[j]))
    /\ mix_failures > 0 => ~HasError(results)
    /\ pc \in {"gather", "returned"} =>
          /\ mix_i = Len(audio_files) * Len(tts_files)
          /\ results.total = Len(base_videos) * Len(mixed_audio_files)
    /\ (pc # "mixes" /\ mix_failures > 0
          /\ mix_failures = Len(audio_files) * Len(tts_files)) =>
          /\ pc = "returned"
          /\ TASKS[task_id].status = "completed"
          /\ results.total = 0 /\ TASKS[task_id].total = 0
          /\ Units = {}
          /\ results.successful = <<>> /\ results.failed = <<>>
          /\ reported = << <<0, 0>> >>

C22_Witness ==
    /\ Len(audio_files) = 2 /\ Len(tts_files) = 2
    /\ pc = "returned"
    /\ mixed_audio_files = <<1, 2>>
    /\ PairOf(1) = <<0, 1>> /\ PairOf(2) = <<1, 0>>
    /\ mix_failures = 2
    /\ results.total = 2

\* C21: within one task the blocks are processed in parallel, the audio
\* downloads run concurrently with voice synthesis, and the voices and the
\* pairings are processed in parallel: while a pre-render stage runs, every
\* item of it that has not finished is in progress, so block1 and block2 can
\* be in progress at the same time.
\* the items whose awaited operation is in flight (the coroutine is suspended
\* in exactly one await at a time)
BlocksInProgress   == IF pc = "blocks" THEN {block_i} ELSE {}
AudioInProgress    == IF pc = "audio" THEN {Len(audio_files) + 1} ELSE {}
VoicesInProgress   == IF pc = "tts" THEN {Len(tts_files) + 1} ELSE {}
PairingsInProgress == IF pc = "mixes" THEN {mix_i + 1} ELSE {}

Unfinished(n, done) == (1..n) \ (1..done)

C21_PreRenderFanOut ==
    /\ pc = "blocks" =>
          BlocksInProgress = Unfinished(Len(video_blocks), Len(base_videos))
    /\ pc = "audio" => VoicesInProgress # {}
    /\ pc = "tts" =>
          VoicesInProgress = Unfinished(Len(voice_configs), Len(tts_files))
    /\ pc = "mixes" =>
          PairingsInProgress = Unfinished(Len(audio_files) * Len(tts_files), mix_i)

\* C28: once delete_task has removed a task whose pipeline is still running,
\* no later progress update, status update or result write of that pipeline
\* brings an entry for the task id back: the id stays absent in every later
\* state, and the entries of other tasks are left as they are.
C28_DeletedStaysAbsent ==
    [][/\ (pc # "none" /\ task_id \notin DOMAIN TASKS) => task_id \notin DOMAIN TASKS'
       /\ \A t \in DOMAIN TASKS \cap DOMAIN TASKS' :
             t # task_id => TASKS'[t] = TASKS[t]
       /\ DOMAIN TASKS' \subseteq DOMAIN TASKS \cup {task_id'}]_vars

C28_Witness ==
    /\ pc = "gather"
    /\ task_id \notin DOMAIN TASKS
    /\ EarlierTask \in DOMAIN TASKS
    /\ Len(reported) = 3
    /\ results.failed # <<>>

\* C27: every task that entered processing eventually reaches status completed
\* or failed, for every variant count and every max_concurrent_jobs, 0 included
\* (given that every external operation returns and scheduling is fair).
C27_Termination == (Status = "processing") ~> (Status \in {"completed", "failed"})

\* C27 as amended: with max_concurrent_jobs >= 1 every task that entered
\* processing eventually reaches completed or failed; with max_concurrent_jobs
\* = 0 a task that reaches the render stage with at least one variant stays
\* in processing for ever, with no unit ever started.
C27_TerminationPositiveBudget ==
    /\ (Status = "processing" /\ max_concurrent_jobs >= 1)
          ~> (Status \in {"completed", "failed"})
    /\ [](max_concurrent_jobs = 0 /\ pc = "gather" =>
            Status = "processing" /\ \A u \in Units : unit[u] = "waiting")

C27_Witness ==
    /\ max_concurrent_jobs = 1
    /\ pc = "returned"
    /\ Status = "completed"
    /\ Cardinality(Units) = 4
    /\ FinishedUnits = Units


\* ---- lifetime of the concatenated videos and of the rendered files ----

\* the file {block_name}_concatenated.mp4 of a base video is inside temp_dir
BaseVideoExists(b) == b \in Range(base_videos) /\ temp_dir = "exists"

\* the unit is past its publish attempt
Published(u) == unit[u] \in {"ok", "publish_failed"}

\* C24: once the render units are created, the concatenated video of a block
\* exists as long as a unit that uses it has not finished, the temporary
\* directory is removed only when every unit of the task has finished, and the
\* rendered local file of a unit exists while it is being published and is gone
\* after the publish attempt, whether that attempt gave a URL or not
C24_VideoLifetime ==
    /\ \A u \in Units : unit[u] \notin Finished =>
           BaseVideoExists(tasks[u].block_name)
    /\ temp_dir = "removed" => AllDone(unit)
    /\ \A u \in Units : unit[u] = "upload" => u \in local_outputs
    /\ \A u \in Units : Published(u) => u \notin local_outputs
    /\ temp_dir = "removed" => local_outputs = {}

\* two blocks rendered: one unit published, one failed to publish, and a unit
\* of the other block still rendering from its concatenated video
C24_Witness ==
    /\ pc = "gather"
    /\ \E u, v, w \in Units :
           /\ unit[u] = "ok" /\ unit[v] = "publish_failed" /\ unit[w] = "render"
           /\ tasks[w].block_name # tasks[u].block_name
           /\ BaseVideoExists(tasks[w].block_name)
    /\ local_outputs = {}


\* ---- the voice catalogue cache ----

\* the thread has a value returned by get_voice_id
Returned(t) == thread[t].pc = "idle" /\ thread[t].lookups > 0

\* C25: the catalogue is obtained from the provider at most once for the
\* TTSService instance, a call that begins after it was obtained does not go to
\* the provider again, and a name missing from a non-empty catalogue resolves
\* to a voice id of that catalogue
C25_VoiceCatalogueCache ==
    /\ catalogue_loads <= 1
    /\ \A t \in DOMAIN thread :
           thread[t].pc = "fetching" => ~thread[t].loaded_before
    /\ \A t \in DOMAIN thread :
           /\ Returned(t)
           /\ voices_cache.loaded
           /\ voices_cache.voices # <<>>
           /\ thread[t].voice_name \notin Names(voices_cache.voices)
           /\ thread[t].loaded_before
           => thread[t].result \in Ids(voices_cache.voices)


\* ---- the outcome of a fetch ----

\* the last download_file call has returned v
DownloadReturned(v) == download_pc = "idle" /\ download_ret = v

\* C26: download_file returns True only for a response with status 200 whose
\* whole body is at the destination, every other status and every error gives
\* False, and after a False return the destination holds no file that the call
\* created or wrote
C26_FetchOutcome ==
    /\ DownloadReturned("True") =>
           resp_status = 200 /\ disk[dest_path] = "complete"
    /\ download_pc = "idle" /\ downloads > 0 /\ resp_status # 200 =>
           download_ret = "False"
    /\ DownloadReturned("False") /\ touched => disk[dest_path] = "absent"

====
